---- MODULE Spec2Model ----
(***************************************************************************)
(* A model of the configuration-resolution and instruction-construction    *)
(* subsystem of m365-documenter-agent:                                     *)
(*   shared/models/configuration.py     ModelConfiguration, Configuration, *)
(*                                      LocalConfiguration,                *)
(*                                      OnlineConfiguration,               *)
(*                                      ConfigurationSingleton,            *)
(*                                      ConfigurationFactory               *)
(*   shared/helpers/agents/agent_client.py   AgentClient                   *)
(*   shared/models/agent_instruction.py      AgentFewShotInstruction       *)
(*                                                                         *)
(* Python's None is the record None; an attribute that was never assigned  *)
(* (reading it raises AttributeError) is the record Unset.  An exception   *)
(* is a record [exc |-> <class name>].                                     *)
(***************************************************************************)
EXTENDS Naturals, Sequences, FiniteSets, TLC

VARIABLES
    \* ---- one LocalConfiguration object used directly (SpecLocal)
    cfg,          \* the object's fields
    cfgEverOk,    \* history: initialize() has returned normally on cfg
    cfgLastInit,  \* outcome of the last initialize() call on cfg
    cfgLastGet,   \* the last getter call on cfg and its outcome
    \* ---- ConfigurationSingleton and its callers (SpecRegistry)
    instances,    \* ConfigurationSingleton._instances: class -> object id, 0 = no key
    lock,         \* ConfigurationSingleton._lock: 0 = free, else the holding thread
    objs,         \* every Configuration object constructed so far, by id
    pc,           \* each thread's position
    frame,        \* each thread's local variables in the running call
    result,       \* each thread's outcome of its last finished call
    callsLeft,    \* calls each thread may still start
    hist,         \* history counters
    \* ---- one AgentClient (SpecAgent)
    agent,        \* the AgentClient object's fields
    agentLog,     \* history of the handles constructed and the run outcomes
    \* ---- one AgentFewShotInstruction (SpecInstruction)
    instr,        \* the instruction's fields
    instrCtor,    \* history: the constructor's arguments
    renders,      \* history: what each str() call returned, in call order
    \* ---- the API service's /run-agent handler (SpecApi)
    apiLog,       \* history: the objects built, the upstream calls, the responses
    \* ---- one GraphTool (SpecGraph)
    graphTool,    \* the GraphTool object's fields
    graphCalls,   \* history: the get_resource calls, in call order
    \* ---- one ModelConfiguration asked for a chat client (SpecChatClient)
    modelCfg,     \* the ModelConfiguration
    chatClients   \* history: the to_azure_oai_chat_client calls, in call order

localVars == <<cfg, cfgEverOk, cfgLastInit, cfgLastGet>>
regVars   == <<instances, lock, objs, pc, frame, result, callsLeft, hist>>
agentVars == <<agent, agentLog>>
instrVars == <<instr, instrCtor, renders>>
extVars   == <<apiLog, graphTool, graphCalls, modelCfg, chatClients>>
vars      == <<localVars, regVars, agentVars, instrVars, extVars>>

None  == [none |-> TRUE]
Unset == [unset |-> TRUE]
Str(s) == [str |-> s]
Exc(name) == [exc |-> name]
IsExc(v) == "exc" \in DOMAIN v
\* Python truth of a value that is None or a string
Truthy(v) == v # None /\ v # Str("")

(***************************************************************************)
(* ModelTypes and ModelConfiguration                                       *)
(***************************************************************************)
\* ModelTypes: member name -> value
ModelTypes == [CHAT |-> "chat", EMBEDDING |-> "embedding"]

\* str.upper() on the type strings a configuration file may hold
Upper(s) ==
    CASE s = "chat"      -> "CHAT"
      [] s = "Chat"      -> "CHAT"
      [] s = "embedding" -> "EMBEDDING"
      [] s = "bogus"     -> "BOGUS"
      [] OTHER           -> s

\* ModelConfiguration.from_dict: a ModelConfiguration, or the exception the
\* first failing subscript raises (keyword arguments are evaluated in order)
from_dict(model_dict) ==
    IF "name" \notin DOMAIN model_dict THEN Exc("KeyError")
    ELSE IF "type" \notin DOMAIN model_dict THEN Exc("KeyError")
    ELSE IF Upper(model_dict.type) \notin DOMAIN ModelTypes THEN Exc("KeyError")
    ELSE IF "deployment_name" \notin DOMAIN model_dict THEN Exc("KeyError")
    ELSE IF "endpoint" \notin DOMAIN model_dict THEN Exc("KeyError")
    ELSE [name            |-> model_dict.name,
          type            |-> Upper(model_dict.type),
          deployment_name |-> model_dict.deployment_name,
          endpoint        |-> model_dict.endpoint]

(***************************************************************************)
(* Configuration, LocalConfiguration, OnlineConfiguration                  *)
(***************************************************************************)
\* The three keys of "model_deployments", in the order initialize() reads
\* them, and the field each one sets (the source's names carry a leading _)
ModelKeys == <<"standard_chat_model", "simple_chat_model", "text_embedding_model">>

\* Configuration.__init__
ConfigurationNew(cls) ==
    [cls |-> cls,
     standard_chat_model  |-> None,
     simple_chat_model    |-> None,
     text_embedding_model |-> None]

\* LocalConfiguration._get_default_config_path, env_path = LOCAL_CONFIG_PATH
GetDefaultConfigPath(env_path) ==
    IF Truthy(env_path) THEN env_path ELSE Str("default_config.json")

\* LocalConfiguration.__init__
LocalConfigurationNew(config_path, env_path) ==
    [cls |-> "LocalConfiguration",
     standard_chat_model  |-> None,
     simple_chat_model    |-> None,
     text_embedding_model |-> None,
     config_path |-> IF Truthy(config_path) THEN config_path
                     ELSE GetDefaultConfigPath(env_path)]

\* OnlineConfiguration.__init__
OnlineConfigurationNew(endpoint, api_key) ==
    [cls |-> "OnlineConfiguration",
     standard_chat_model  |-> None,
     simple_chat_model    |-> None,
     text_embedding_model |-> None,
     endpoint |-> endpoint,
     api_key  |-> api_key]

\* Configuration._set_standard_chat_model, _set_simple_chat_model and
\* _set_text_embedding_model, by the key whose model they store
SetModel(obj, key, model_config) ==
    CASE key = "standard_chat_model" -> [obj EXCEPT !.standard_chat_model = model_config]
      [] key = "simple_chat_model" -> [obj EXCEPT !.simple_chat_model = model_config]
      [] key = "text_embedding_model" -> [obj EXCEPT !.text_embedding_model = model_config]

\* The try block of LocalConfiguration.initialize from key k on: each model
\* is parsed and stored before the next key is looked at
RECURSIVE LoadModels(_, _, _)
LoadModels(obj, deployments, k) ==
    IF k > Len(ModelKeys) THEN [obj |-> obj, exc |-> None]
    ELSE IF ModelKeys[k] \notin DOMAIN deployments
    THEN [obj |-> obj, exc |-> Exc("RuntimeError")]
    ELSE LET m == from_dict(deployments[ModelKeys[k]])
         IN  IF IsExc(m) THEN [obj |-> obj, exc |-> Exc("RuntimeError")]
             ELSE LoadModels(SetModel(obj, ModelKeys[k], m), deployments, k + 1)

\* LocalConfiguration.initialize against the file now at the object's path:
\* the object afterwards and the exception raised (None: returned normally)
LocalInitialize(obj, file) ==
    IF ~file.exists THEN [obj |-> obj, exc |-> Exc("FileNotFoundError")]
    ELSE IF ~file.loads THEN [obj |-> obj, exc |-> Exc("RuntimeError")]
    ELSE IF "model_deployments" \notin DOMAIN file.data
    THEN [obj |-> obj, exc |-> Exc("RuntimeError")]
    ELSE LoadModels(obj, file.data.model_deployments, 1)

\* OnlineConfiguration.initialize
OnlineInitialize(obj) == [obj |-> obj, exc |-> Exc("NotImplementedError")]

\* initialize(), dispatched on the object's class
Initialize(obj, file) ==
    IF obj.cls = "LocalConfiguration" THEN LocalInitialize(obj, file)
    ELSE OnlineInitialize(obj)

\* Configuration.get_standard_chat_model / get_simple_chat_model /
\* get_text_embedding_model: the value returned or the exception raised
get_standard_chat_model(obj) ==
    IF obj.standard_chat_model = None THEN Exc("RuntimeError")
    ELSE obj.standard_chat_model

get_simple_chat_model(obj) ==
    IF obj.simple_chat_model = None THEN Exc("RuntimeError")
    ELSE obj.simple_chat_model

get_text_embedding_model(obj) ==
    IF obj.text_embedding_model = None THEN Exc("RuntimeError")
    ELSE obj.text_embedding_model

Getters == {"get_standard_chat_model", "get_simple_chat_model", "get_text_embedding_model"}

CallGetter(g, obj) ==
    CASE g = "get_standard_chat_model" -> get_standard_chat_model(obj)
      [] g = "get_simple_chat_model" -> get_simple_chat_model(obj)
      [] g = "get_text_embedding_model" -> get_text_embedding_model(obj)

(***************************************************************************)
(* Inputs: configuration files                                             *)
(***************************************************************************)
\* The model dicts a configuration file may hold under a key
ModelDicts ==
    { [name |-> "std", type |-> "chat", deployment_name |-> "gpt-4o", endpoint |-> "https://aoai"],
      [name |-> "emb", type |-> "embedding", deployment_name |-> "ada", endpoint |-> "https://aoai"],
      [name |-> "odd", type |-> "bogus", deployment_name |-> "gpt-4o", endpoint |-> "https://aoai"],
      [name |-> "cut", type |-> "Chat", deployment_name |-> "gpt-4o-mini"] }

\* Every "model_deployments" object: any of the three keys present or not
AllDeployments ==
    UNION { [S -> ModelDicts] : S \in SUBSET {ModelKeys[k] : k \in 1..Len(ModelKeys)} }

NoFile     == [exists |-> FALSE]
BadFile    == [exists |-> TRUE, loads |-> FALSE]
EmptyJson  == [exists |-> TRUE, loads |-> TRUE, data |-> [other |-> TRUE]]
JsonFile(deployments) ==
    [exists |-> TRUE, loads |-> TRUE, data |-> [model_deployments |-> deployments]]

\* Every file state initialize() may find
AllFiles == {NoFile, BadFile, EmptyJson} \cup {JsonFile(d) : d \in AllDeployments}

ConfigPathArgs == {None, Str(""), Str("alt.json")}
EnvPaths == {None, Str("env.json")}

(***************************************************************************)
(* SpecLocal: one LocalConfiguration object used directly                  *)
(***************************************************************************)
\* The part at rest, in the specifications of the other parts
LocalIdle ==
    cfg = Unset /\ cfgEverOk = FALSE /\ cfgLastInit = Unset /\ cfgLastGet = Unset

LocalInit ==
    /\ cfg \in {LocalConfigurationNew(p, e) : p \in ConfigPathArgs, e \in EnvPaths}
    /\ cfgEverOk = FALSE
    /\ cfgLastInit = Unset
    /\ cfgLastGet = Unset

\* cfg.initialize()
LocalDoInitialize ==
    \E file \in AllFiles :
        LET r == LocalInitialize(cfg, file)
        IN  /\ cfg' = r.obj
            /\ cfgLastInit' = r.exc
            /\ cfgEverOk' = (cfgEverOk \/ r.exc = None)
            /\ cfgLastGet' = Unset
            /\ UNCHANGED <<regVars, agentVars, instrVars, extVars>>

\* cfg.get_standard_chat_model() and the two other getters
LocalDoGet ==
    \E g \in Getters :
        /\ cfgLastGet' = [getter |-> g, out |-> CallGetter(g, cfg)]
        /\ UNCHANGED <<cfg, cfgEverOk, cfgLastInit>>
        /\ UNCHANGED <<regVars, agentVars, instrVars, extVars>>


(***************************************************************************)
(* SpecRegistry: ConfigurationSingleton and ConfigurationFactory, called   *)
(* from concurrent threads.  A thread's step is one read or write of the   *)
(* shared dictionary or lock; a thread may be preempted between any two.   *)
(***************************************************************************)
NThreads == 2
\* Calls the threads may start, in total
MaxCalls == 2

Threads == 1..NThreads
Classes == {"LocalConfiguration", "OnlineConfiguration"}

\* The values CONFIG_ENDPOINT and CONFIG_API_KEY may have (None: not set)
EnvValues == {None, Str(""), Str("set")}

\* The config_path arguments the threads pass; LOCAL_CONFIG_PATH is not set
RegPathArgs == {None, Str("alt.json")}

GoodDeployments ==
    [k \in {ModelKeys[i] : i \in 1..Len(ModelKeys)} |->
        IF k = "text_embedding_model"
        THEN [name |-> "emb", type |-> "embedding", deployment_name |-> "ada", endpoint |-> "https://aoai"]
        ELSE [name |-> "std", type |-> "chat", deployment_name |-> "gpt-4o", endpoint |-> "https://aoai"]]

\* A file whose "model_deployments" lacks only "text_embedding_model"
NoEmbeddingDeployments ==
    [k \in {"standard_chat_model", "simple_chat_model"} |-> GoodDeployments[k]]

\* The file states the threads' initialize() calls may find
RegFiles == {NoFile, JsonFile(GoodDeployments), JsonFile(NoEmbeddingDeployments)}

EmptyFrame ==
    [op       |-> "",      \* the factory method the thread called
     inTry    |-> FALSE,   \* inside create_configuration's try block
     envSet   |-> FALSE,   \* history: create_configuration found both variables set
     online   |-> FALSE,   \* history: the call has constructed an OnlineConfiguration
     cls      |-> "",      \* get_instance's config_class
     args     |-> <<>>,    \* get_instance's *args
     instance |-> 0,       \* get_instance's local variable instance
     sawFull  |-> FALSE,   \* history: the first check found the key
     locked   |-> FALSE,   \* history: this get_instance call has acquired the lock
     attempts |-> 0,       \* history: initialize() calls made by this get_instance call
     exc      |-> None]    \* the exception being propagated

RegInit ==
    /\ instances = [c \in Classes |-> 0]
    /\ lock = 0
    /\ objs = <<>>
    /\ pc = [t \in Threads |-> "idle"]
    /\ frame = [t \in Threads |-> EmptyFrame]
    /\ result = [t \in Threads |-> Unset]
    /\ callsLeft = MaxCalls
    /\ hist = [returned |-> [c \in Classes |-> {}], clears |-> 0]

\* ConfigurationSingleton.get_instance is entered: a fresh frame for it
EnterGetInstance(f, c, a) ==
    [f EXCEPT !.cls = c, !.args = a, !.instance = 0, !.sawFull = FALSE,
              !.locked = FALSE, !.attempts = 0, !.exc = None]

\* ConfigurationFactory.create_local_configuration(config_path)
CreateLocalConfiguration(t) ==
    /\ pc[t] = "idle" /\ callsLeft > 0
    /\ \E config_path \in RegPathArgs :
        frame' = [frame EXCEPT ![t] =
            EnterGetInstance([EmptyFrame EXCEPT !.op = "create_local_configuration"],
                             "LocalConfiguration", <<config_path>>)]
    /\ pc' = [pc EXCEPT ![t] = "check1"]
    /\ callsLeft' = callsLeft - 1
    /\ UNCHANGED <<instances, lock, objs, result, hist>>
    /\ UNCHANGED <<localVars, agentVars, instrVars, extVars>>

\* ConfigurationFactory.create_online_configuration(endpoint, api_key)
CreateOnlineConfiguration(t) ==
    /\ pc[t] = "idle" /\ callsLeft > 0
    /\ frame' = [frame EXCEPT ![t] =
            EnterGetInstance([EmptyFrame EXCEPT !.op = "create_online_configuration"],
                             "OnlineConfiguration", <<Str("set"), Str("set")>>)]
    /\ pc' = [pc EXCEPT ![t] = "check1"]
    /\ callsLeft' = callsLeft - 1
    /\ UNCHANGED <<instances, lock, objs, result, hist>>
    /\ UNCHANGED <<localVars, agentVars, instrVars, extVars>>

OnlineAvailableEither(online_endpoint, online_api_key) ==
    Truthy(online_endpoint) \/ Truthy(online_api_key)

\* create_configuration's test of the two environment variables
OnlineAvailable(online_endpoint, online_api_key) ==
    Truthy(online_endpoint) /\ Truthy(online_api_key)

\* ConfigurationFactory.create_configuration() up to its first get_instance
CreateConfiguration(t) ==
    /\ pc[t] = "idle" /\ callsLeft > 0
    /\ \E online_endpoint \in EnvValues, online_api_key \in EnvValues :
        LET f == [EmptyFrame EXCEPT
                    !.op = "create_configuration",
                    !.envSet = (online_endpoint # None /\ online_api_key # None)]
        IN  frame' = [frame EXCEPT ![t] =
                IF OnlineAvailable(online_endpoint, online_api_key)
                THEN EnterGetInstance([f EXCEPT !.inTry = TRUE], "OnlineConfiguration",
                                      <<online_endpoint, online_api_key>>)
                ELSE EnterGetInstance(f, "LocalConfiguration", <<None>>)]
    /\ pc' = [pc EXCEPT ![t] = "check1"]
    /\ callsLeft' = callsLeft - 1
    /\ UNCHANGED <<instances, lock, objs, result, hist>>
    /\ UNCHANGED <<localVars, agentVars, instrVars, extVars>>

\* config_class not in cls._instances
NotInInstances(c) == instances[c] = 0

\* get_instance, the unlocked first check
FirstCheck(t) ==
    /\ pc[t] = "check1"
    /\ frame' = [frame EXCEPT ![t].sawFull = ~NotInInstances(frame[t].cls)]
    /\ pc' = [pc EXCEPT ![t] = IF NotInInstances(frame[t].cls) THEN "acquire" ELSE "return"]
    /\ UNCHANGED <<instances, lock, objs, result, callsLeft, hist>>
    /\ UNCHANGED <<localVars, agentVars, instrVars, extVars>>

LockNeverHeld == TRUE

\* threading.Lock: acquirable only while no thread holds it
LockFree == lock = 0

\* get_instance, with cls._lock: __enter__
Acquire(t) ==
    /\ pc[t] = "acquire"
    /\ LockFree
    /\ lock' = t
    /\ frame' = [frame EXCEPT ![t].locked = TRUE]
    /\ pc' = [pc EXCEPT ![t] = "check2"]
    /\ UNCHANGED <<instances, objs, result, callsLeft, hist>>
    /\ UNCHANGED <<localVars, agentVars, instrVars, extVars>>

DoubleCheckSkipped(c) == TRUE

\* get_instance, the second check, made under the lock
DoubleCheck(c) == NotInInstances(c)

SecondCheck(t) ==
    /\ pc[t] = "check2"
    /\ pc' = [pc EXCEPT ![t] = IF DoubleCheck(frame[t].cls) THEN "construct" ELSE "release"]
    /\ UNCHANGED <<instances, lock, objs, frame, result, callsLeft, hist>>
    /\ UNCHANGED <<localVars, agentVars, instrVars, extVars>>

\* config_class(*args, **kwargs)
NewInstance(c, a) ==
    IF c = "LocalConfiguration" THEN LocalConfigurationNew(a[1], None)
    ELSE OnlineConfigurationNew(a[1], a[2])

\* get_instance: instance = config_class(*args, **kwargs)
Construct(t) ==
    /\ pc[t] = "construct"
    /\ objs' = Append(objs, [obj   |-> NewInstance(frame[t].cls, frame[t].args),
                             state |-> "new"])
    /\ frame' = [frame EXCEPT ![t].instance = Len(objs) + 1,
                              ![t].online = @ \/ frame[t].cls = "OnlineConfiguration"]
    /\ pc' = [pc EXCEPT ![t] = "initialize"]
    /\ UNCHANGED <<instances, lock, result, callsLeft, hist>>
    /\ UNCHANGED <<localVars, agentVars, instrVars, extVars>>

AfterInitializeSwallowed(exc) == "store"

\* get_instance: where control goes when instance.initialize() has ended
AfterInitialize(exc) == IF exc = None THEN "store" ELSE "unwind"

\* get_instance: instance.initialize()
InitializeInstance(t) ==
    /\ pc[t] = "initialize"
    /\ \E file \in (IF frame[t].cls = "LocalConfiguration" THEN RegFiles ELSE {NoFile}) :
        LET r == Initialize(objs[frame[t].instance].obj, file)
        IN  /\ objs' = [objs EXCEPT ![frame[t].instance] =
                            [obj |-> r.obj, state |-> IF r.exc = None THEN "ok" ELSE "failed"]]
            /\ frame' = [frame EXCEPT ![t].attempts = @ + 1, ![t].exc = r.exc]
            /\ pc' = [pc EXCEPT ![t] = AfterInitialize(r.exc)]
    /\ UNCHANGED <<instances, lock, result, callsLeft, hist>>
    /\ UNCHANGED <<localVars, agentVars, instrVars, extVars>>

\* get_instance: cls._instances[config_class] = instance
Store(t) ==
    /\ pc[t] = "store"
    /\ instances' = [instances EXCEPT ![frame[t].cls] = frame[t].instance]
    /\ pc' = [pc EXCEPT ![t] = "release"]
    /\ UNCHANGED <<lock, objs, frame, result, callsLeft, hist>>
    /\ UNCHANGED <<localVars, agentVars, instrVars, extVars>>

\* get_instance, with cls._lock: __exit__ on the normal path
Release(t) ==
    /\ pc[t] = "release"
    /\ lock' = 0
    /\ pc' = [pc EXCEPT ![t] = "return"]
    /\ UNCHANGED <<instances, objs, frame, result, callsLeft, hist>>
    /\ UNCHANGED <<localVars, agentVars, instrVars, extVars>>

\* What a thread's caller sees of a finished factory call
Outcome(f, out) ==
    [op |-> f.op, envSet |-> f.envSet, online |-> f.online, out |-> out]

\* An exception leaves get_instance.  Inside create_configuration's try it
\* is caught and create_local_configuration() is called; anywhere else it
\* reaches the thread's caller.
Propagate(t, exc) ==
    IF frame[t].inTry
    THEN /\ frame' = [frame EXCEPT ![t] =
                EnterGetInstance([frame[t] EXCEPT !.inTry = FALSE],
                                 "LocalConfiguration", <<None>>)]
         /\ pc' = [pc EXCEPT ![t] = "check1"]
         /\ UNCHANGED result
    ELSE /\ result' = [result EXCEPT ![t] = Outcome(frame[t], exc)]
         /\ frame' = [frame EXCEPT ![t] = EmptyFrame]
         /\ pc' = [pc EXCEPT ![t] = "idle"]

\* get_instance, with cls._lock: __exit__ while initialize()'s exception
\* propagates
Unwind(t) ==
    /\ pc[t] = "unwind"
    /\ lock' = 0
    /\ Propagate(t, frame[t].exc)
    /\ UNCHANGED <<instances, objs, callsLeft, hist>>
    /\ UNCHANGED <<localVars, agentVars, instrVars, extVars>>

\* get_instance: return cls._instances[config_class]
Return(t) ==
    /\ pc[t] = "return"
    /\ IF NotInInstances(frame[t].cls)
       THEN /\ Propagate(t, Exc("KeyError"))
            /\ UNCHANGED hist
       ELSE /\ result' = [result EXCEPT ![t] =
                    Outcome(frame[t], [id |-> instances[frame[t].cls]])]
            /\ hist' = [hist EXCEPT !.returned[frame[t].cls] =
                                        @ \cup {instances[frame[t].cls]}]
            /\ frame' = [frame EXCEPT ![t] = EmptyFrame]
            /\ pc' = [pc EXCEPT ![t] = "idle"]
    /\ UNCHANGED <<instances, lock, objs, callsLeft>>
    /\ UNCHANGED <<localVars, agentVars, instrVars, extVars>>

\* ConfigurationSingleton.clear_instances is called
CallClearInstances(t) ==
    /\ pc[t] = "idle" /\ callsLeft > 0
    /\ frame' = [frame EXCEPT ![t] = [EmptyFrame EXCEPT !.op = "clear_instances"]]
    /\ pc' = [pc EXCEPT ![t] = "clear_acquire"]
    /\ callsLeft' = callsLeft - 1
    /\ UNCHANGED <<instances, lock, objs, result, hist>>
    /\ UNCHANGED <<localVars, agentVars, instrVars, extVars>>

\* clear_instances, with cls._lock: __enter__
ClearAcquire(t) ==
    /\ pc[t] = "clear_acquire"
    /\ LockFree
    /\ lock' = t
    /\ pc' = [pc EXCEPT ![t] = "clear"]
    /\ UNCHANGED <<instances, objs, frame, result, callsLeft, hist>>
    /\ UNCHANGED <<localVars, agentVars, instrVars, extVars>>

\* clear_instances: cls._instances.clear(), then __exit__
ClearInstances(t) ==
    /\ pc[t] = "clear"
    /\ instances' = [c \in Classes |-> 0]
    /\ lock' = 0
    /\ hist' = [hist EXCEPT !.clears = @ + 1]
    /\ result' = [result EXCEPT ![t] = Outcome(frame[t], None)]
    /\ frame' = [frame EXCEPT ![t] = EmptyFrame]
    /\ pc' = [pc EXCEPT ![t] = "idle"]
    /\ UNCHANGED <<objs, callsLeft>>
    /\ UNCHANGED <<localVars, agentVars, instrVars, extVars>>

RegIdle ==
    /\ instances = [c \in Classes |-> 0]
    /\ lock = 0
    /\ objs = <<>>
    /\ pc = [t \in Threads |-> "idle"]
    /\ frame = [t \in Threads |-> EmptyFrame]
    /\ result = [t \in Threads |-> Unset]
    /\ callsLeft = 0
    /\ hist = [returned |-> [c \in Classes |-> {}], clears |-> 0]

(***************************************************************************)
(* SpecAgent: one AgentClient, its ChatAgent handle and its runs           *)
(***************************************************************************)
\* create_agent / run_agent calls made on the one AgentClient
MaxAgentCalls == 3

UserInputs == {"document this policy", "unsafe request"}
\* What the ChatAgent's run may answer: a response with its text, or the
\* exception of a failed upstream call
Responses == {[text |-> "# Policy"], [text |-> "unsafe answer"], Exc("UpstreamError")}
\* The content a content-safety check would reject
UnsafeContent == {"unsafe request", "unsafe answer"}

AgentIdle == agent = Unset /\ agentLog = Unset

\* AgentClient.__init__: the chat client is built here; self.agent is not
\* assigned (the class body only annotates it)
AgentClientNew(instruction, name, chat_completion_model, use_content_safety) ==
    [instruction           |-> instruction,
     name                  |-> name,
     use_content_safety    |-> use_content_safety,
     chat_completion_model |-> chat_completion_model,
     agent_client          |-> [chat_client |-> 1],
     agent                 |-> Unset]

AgentInit ==
    /\ \E use_content_safety \in BOOLEAN :
        agent = AgentClientNew("You are a helpful assistant.", "TestAgent",
                               [endpoint |-> "https://aoai", deployment_name |-> "gpt-4o"],
                               use_content_safety)
    /\ agentLog = [chat_clients |-> 1,      \* AzureOpenAIChatClient objects built
                   chat_agents  |-> 0,      \* ChatAgent objects built
                   calls        |-> 0,      \* calls made on the AgentClient
                   runs         |-> <<>>]   \* the run_agent calls, in call order

\* AgentClient.create_agent
CreateAgent(a, log) ==
    [a EXCEPT !.agent = [chat_agent  |-> log.chat_agents + 1,
                         chat_client |-> a.agent_client,
                         use_content_safety |-> a.use_content_safety]]

\* agent.create_agent(), called by the owner of the AgentClient
AgentCreateAgent ==
    /\ agentLog.calls < MaxAgentCalls
    /\ agent' = CreateAgent(agent, agentLog)
    /\ agentLog' = [agentLog EXCEPT !.chat_agents = @ + 1, !.calls = @ + 1]
    /\ UNCHANGED <<localVars, regVars, instrVars, extVars>>

\* AgentClient.run_agent(user_input), response being what self.agent.run
\* answers: the object afterwards, and the value returned or the exception
\* raised.  Reading self.agent before any assignment raises AttributeError;
\* the use_content_safety branch is a pass statement.
RunAgent(a, user_input, response) ==
    IF a.agent = Unset THEN [self |-> a, out |-> Exc("AttributeError")]
    ELSE IF IsExc(response) THEN [self |-> a, out |-> response]
    ELSE [self |-> a, out |-> Str(response.text)]

\* await agent.run_agent(user_input)
AgentRunAgent ==
    /\ agentLog.calls < MaxAgentCalls
    /\ \E user_input \in UserInputs, response \in Responses :
        LET r == RunAgent(agent, user_input, response)
        IN  /\ agent' = r.self
            /\ agentLog' = [agentLog EXCEPT
                    !.calls = @ + 1,
                    !.runs = Append(@,
                        [before     |-> agent.agent,    \* self.agent as the call began
                         after      |-> r.self.agent,   \* self.agent as it ended
                         user_input |-> user_input,
                         response   |-> IF agent.agent = Unset THEN Unset ELSE response,
                         out        |-> r.out])]
    /\ UNCHANGED <<localVars, regVars, instrVars, extVars>>

(***************************************************************************)
(* SpecInstruction: one AgentInstruction or AgentFewShotInstruction        *)
(***************************************************************************)
MaxExamples == 2
\* str() calls made on the instruction
MaxRenders == 2

SystemTexts == {"", "You are a technical writer.", "Reply\n\nExamples:\n"}
ExampleTexts == {"Q", "A\n\nInput: B"}
ExamplePairs == ExampleTexts \X ExampleTexts
ExampleLists == UNION {[1..n -> ExamplePairs] : n \in 0..MaxExamples}

InstrIdle == instr = Unset /\ instrCtor = Unset /\ renders = <<>>

\* AgentInstruction.__init__
AgentInstructionNew(system_instruction) ==
    [cls |-> "AgentInstruction", system_instruction |-> system_instruction]

\* AgentFewShotInstruction.__init__
AgentFewShotInstructionNew(system_instruction, examples) ==
    [cls |-> "AgentFewShotInstruction",
     system_instruction |-> system_instruction,
     examples |-> examples]

InstrInit ==
    /\ instr \in {AgentInstructionNew(s) : s \in SystemTexts}
            \cup {AgentFewShotInstructionNew(s, e) : s \in SystemTexts, e \in ExampleLists}
    /\ instrCtor = instr
    /\ renders = <<>>

\* AgentInstruction.__str__
AgentInstructionStr(ins) == ins.system_instruction

ExamplesHeaderOneNewline == "\nExamples:\n"

\* The literal AgentFewShotInstruction.__str__ appends to the system text
ExamplesHeader == "\n\nExamples:\n"

\* f"Input: {input}\nOutput: {output}"
ExampleBlock(example) == "Input: " \o example[1] \o "\nOutput: " \o example[2]

RECURSIVE JoinReversed(_, _)
JoinReversed(sep, strs) ==
    IF Len(strs) = 0 THEN ""
    ELSE IF Len(strs) = 1 THEN strs[1]
    ELSE JoinReversed(sep, Tail(strs)) \o sep \o Head(strs)

\* sep.join(strs)
RECURSIVE Join(_, _)
Join(sep, strs) ==
    IF Len(strs) = 0 THEN ""
    ELSE IF Len(strs) = 1 THEN strs[1]
    ELSE Head(strs) \o sep \o Join(sep, Tail(strs))

\* AgentFewShotInstruction.__str__
AgentFewShotInstructionStr(ins) ==
    ins.system_instruction \o ExamplesHeader
        \o Join("\n\n", [k \in 1..Len(ins.examples) |-> ExampleBlock(ins.examples[k])])

\* str(instruction)
InstrRender ==
    /\ Len(renders) < MaxRenders
    /\ renders' = Append(renders,
            IF instr.cls = "AgentFewShotInstruction"
            THEN AgentFewShotInstructionStr(instr)
            ELSE AgentInstructionStr(instr))
    /\ UNCHANGED <<instr, instrCtor>>
    /\ UNCHANGED <<localVars, regVars, agentVars, extVars>>

(***************************************************************************)
(* Specifications                                                          *)
(***************************************************************************)
(***************************************************************************)
(* SpecApi: the API service's POST /run-agent                              *)
(***************************************************************************)
\* requests answered
MaxRequests == 2

\* The user_input query parameter of a request: absent, empty, or a text
RequestInputs == {Unset, Str("")} \cup {Str(u) : u \in UserInputs}

\* chat_config, the module's ChatModelConfig
chat_config == [endpoint |-> "https://aoai-browseragent6cpbv-dev.openai.azure.com/",
                deployment_name |-> "gpt-4o"]

ApiIdle == apiLog = Unset

ApiInit ==
    apiLog = [chat_clients |-> 0,      \* AzureOpenAIChatClient objects built
              wrappers     |-> 0,      \* agent wrapper objects built
              chat_agents  |-> 0,      \* ChatAgent objects built
              upstream     |-> 0,      \* calls made to the chat model
              requests     |-> <<>>]   \* the requests, in the order answered

\* What the handler did and answered
Handled(out, wrappers, chat_agents, upstream) ==
    [out |-> out, wrappers |-> wrappers, chat_agents |-> chat_agents,
     upstream |-> upstream]

\* The body of run_agent(user_input).  resolved tells whether the
\* agent_client module has the attribute AgentClientBase: the module of this
\* tree defines AgentClient only, and then the attribute lookup raises; where
\* it resolves, the wrapper is the module's agent client class.  response is
\* what the ChatAgent's run answers.
run_agent(user_input, resolved, response) ==
    IF ~Truthy(user_input)
    THEN Handled([error |-> "user_input is required."], 0, 0, 0)
    ELSE IF ~resolved
    THEN Handled(Exc("AttributeError"), 0, 0, 0)
    ELSE LET a0 == AgentClientNew("You are a helpful assistant.", "TestAgent",
                                  chat_config, TRUE)
             a1 == CreateAgent(a0, [chat_agents |-> 0])
             r  == RunAgent(a1, user_input.str, response)
         IN  Handled(IF IsExc(r.out) THEN r.out ELSE [response |-> r.out],
                     1, 1, 1)

\* The route POST /run-agent: user_input is declared as a str parameter with
\* no default, so a request without it is answered by the framework's request
\* validation and the handler is not run
RunAgentRoute(user_input, resolved, response) ==
    IF user_input = Unset
    THEN Handled([detail |-> "Field required"], 0, 0, 0)
    ELSE run_agent(user_input, resolved, response)

\* One request answered
ApiRunAgent ==
    /\ Len(apiLog.requests) < MaxRequests
    /\ \E user_input \in RequestInputs, resolved \in BOOLEAN, response \in Responses :
        LET h == RunAgentRoute(user_input, resolved, response)
        IN  apiLog' = [apiLog EXCEPT
                !.chat_clients = @ + h.wrappers,   \* one per wrapper, in __init__
                !.wrappers     = @ + h.wrappers,
                !.chat_agents  = @ + h.chat_agents,
                !.upstream     = @ + h.upstream,
                !.requests     = Append(@, [user_input |-> user_input,
                                            handled    |-> h])]
    /\ UNCHANGED <<localVars, regVars, agentVars, instrVars>>
    /\ UNCHANGED <<graphTool, graphCalls, modelCfg, chatClients>>

(***************************************************************************)
(* SpecGraph: one GraphTool and its get_resource calls                     *)
(***************************************************************************)
\* get_resource calls made
MaxGets == 2

\* The status code of a successful response, and the timeout of the request
HTTP_OK == 200
RequestTimeout == 30

Digit(d) ==
    CASE d = 0 -> "0" [] d = 1 -> "1" [] d = 2 -> "2" [] d = 3 -> "3"
      [] d = 4 -> "4" [] d = 5 -> "5" [] d = 6 -> "6" [] d = 7 -> "7"
      [] d = 8 -> "8" [] d = 9 -> "9"

\* An int formatted by an f-string: its decimal digits
RECURSIVE IntStr(_)
IntStr(n) == IF n < 10 THEN Digit(n) ELSE IntStr(n \div 10) \o Digit(n % 10)

GraphEndpoints == {"https://graph.microsoft.com/v1.0", "https://graph.test"}
ResourcePaths == {"users/42", "groups"}
StatusCodes == {HTTP_OK, 404, 500}
ResponseTexts == {"{\"value\": []}", "Resource not found"}
\* What requests.get may do: answer with a response, or raise because no
\* response came (the timeout ran out, the connection failed)
UpstreamOutcomes ==
    [status_code : StatusCodes, text : ResponseTexts]
        \cup {Exc("Timeout"), Exc("ConnectionError")}

GraphIdle == graphTool = Unset /\ graphCalls = <<>>

\* GraphTool.__init__, the identity having given a token for the scope
GraphToolNew(graph_endpoint, paging_enabled, version) ==
    [graph_endpoint |-> graph_endpoint,
     token          |-> "token for " \o graph_endpoint \o "/.default",
     paging_enabled |-> paging_enabled,
     version        |-> version]

GraphInit ==
    /\ \E graph_endpoint \in GraphEndpoints :
        graphTool = GraphToolNew(graph_endpoint, TRUE, "v1.0")
    /\ graphCalls = <<>>

\* The request get_resource sends
GraphRequest(self, path) ==
    [url     |-> self.graph_endpoint \o "/" \o self.version \o "/" \o path,
     headers |-> [Authorization |-> "Bearer " \o self.token,
                  ContentType   |-> "application/json"],
     timeout |-> RequestTimeout]

\* GraphTool.get_resource(path), upstream being what requests.get does: the
\* string returned, or the exception raised.  The call to requests.get is in
\* no try block.
get_resource(self, path, upstream) ==
    IF IsExc(upstream) THEN upstream
    ELSE IF upstream.status_code # HTTP_OK
    THEN Str("get_resource's graph api request failed with status code "
             \o IntStr(upstream.status_code) \o " and message: " \o upstream.text)
    ELSE Str(upstream.text)

\* One get_resource call
GraphGetResource ==
    /\ Len(graphCalls) < MaxGets
    /\ \E path \in ResourcePaths, upstream \in UpstreamOutcomes :
        graphCalls' = Append(graphCalls,
                             [request  |-> GraphRequest(graphTool, path),
                              upstream |-> upstream,
                              out      |-> get_resource(graphTool, path, upstream)])
    /\ UNCHANGED <<localVars, regVars, agentVars, instrVars>>
    /\ UNCHANGED <<apiLog, graphTool, modelCfg, chatClients>>

(***************************************************************************)
(* SpecChatClient: one ModelConfiguration asked for chat clients           *)
(***************************************************************************)
\* to_azure_oai_chat_client calls made
MaxClientCalls == 2

\* The dictionaries the ModelConfiguration is made from
ChatClientDicts ==
    [name : {"std", "emb"}, type : {"chat", "Chat", "embedding"},
     deployment_name : {"gpt-4o", "ada"},
     endpoint : {"https://aoai", "https://aoai-2"}]
Credentials == {"DefaultAzureCredential", "ManagedIdentityCredential"}

ChatClientIdle == modelCfg = Unset /\ chatClients = <<>>

ChatClientInit ==
    /\ \E model_dict \in ChatClientDicts : modelCfg = from_dict(model_dict)
    /\ chatClients = <<>>

\* AzureOpenAIChatClient(endpoint=, deployment_name=, credential=)
AzureOpenAIChatClientNew(endpoint, deployment_name, credential) ==
    [endpoint |-> endpoint, deployment_name |-> deployment_name,
     credential |-> credential]

\* Without the type check of line 55
ChatClientForAnyType(self, credential) ==
    [out   |-> AzureOpenAIChatClientNew(self.endpoint, self.deployment_name, credential),
     built |-> 1]

\* ModelConfiguration.to_azure_oai_chat_client(credential): the client
\* returned or the exception raised, and the number of clients constructed
to_azure_oai_chat_client(self, credential) ==
    IF self.type # "CHAT"
    THEN [out |-> Exc("ValueError"), built |-> 0]
    ELSE [out   |-> AzureOpenAIChatClientNew(self.endpoint, self.deployment_name,
                                             credential),
          built |-> 1]

\* One to_azure_oai_chat_client call
ChatClientCall ==
    /\ Len(chatClients) < MaxClientCalls
    /\ \E credential \in Credentials :
        LET r == to_azure_oai_chat_client(modelCfg, credential)
        IN  chatClients' = Append(chatClients,
                                  [credential |-> credential,
                                   out        |-> r.out,
                                   built      |-> r.built])
    /\ UNCHANGED <<localVars, regVars, agentVars, instrVars>>
    /\ UNCHANGED <<apiLog, graphTool, graphCalls, modelCfg>>

\* The parts above at rest
ExtIdle ==
    /\ ApiIdle
    /\ GraphIdle
    /\ ChatClientIdle

LocalNext ==
    \/ LocalDoInitialize
    \/ LocalDoGet

InitLocal == LocalInit /\ RegIdle /\ AgentIdle /\ InstrIdle /\ ExtIdle

\* One LocalConfiguration object, initialized and read directly
SpecLocal == InitLocal /\ [][LocalNext]_vars

RegNext ==
    \E t \in Threads :
        \/ CreateLocalConfiguration(t)
        \/ CreateOnlineConfiguration(t)
        \/ CreateConfiguration(t)
        \/ FirstCheck(t)
        \/ Acquire(t)
        \/ SecondCheck(t)
        \/ Construct(t)
        \/ InitializeInstance(t)
        \/ Store(t)
        \/ Release(t)
        \/ Unwind(t)
        \/ Return(t)
        \/ CallClearInstances(t)
        \/ ClearAcquire(t)
        \/ ClearInstances(t)

InitRegistry == LocalIdle /\ RegInit /\ AgentIdle /\ InstrIdle /\ ExtIdle

\* The registry and the factory under concurrent callers
SpecRegistry == InitRegistry /\ [][RegNext]_vars

AgentNext ==
    \/ AgentCreateAgent
    \/ AgentRunAgent

InitAgent == LocalIdle /\ RegIdle /\ AgentInit /\ InstrIdle /\ ExtIdle

\* One AgentClient and the calls made on it
SpecAgent == InitAgent /\ [][AgentNext]_vars

InstrNext == InstrRender

InitInstruction == LocalIdle /\ RegIdle /\ AgentIdle /\ InstrInit /\ ExtIdle

\* One instruction rendered any number of times
SpecInstruction == InitInstruction /\ [][InstrNext]_vars

ApiNext == ApiRunAgent

InitApi ==
    /\ LocalIdle /\ RegIdle /\ AgentIdle /\ InstrIdle
    /\ ApiInit
    /\ GraphIdle
    /\ ChatClientIdle

\* Requests to POST /run-agent, answered one after another
SpecApi == InitApi /\ [][ApiNext]_vars

GraphNext == GraphGetResource

InitGraph ==
    /\ LocalIdle /\ RegIdle /\ AgentIdle /\ InstrIdle
    /\ ApiIdle
    /\ GraphInit
    /\ ChatClientIdle

\* One GraphTool asked for resources any number of times
SpecGraph == InitGraph /\ [][GraphNext]_vars

ChatClientNext == ChatClientCall

InitChatClient ==
    /\ LocalIdle /\ RegIdle /\ AgentIdle /\ InstrIdle
    /\ ApiIdle
    /\ GraphIdle
    /\ ChatClientInit

\* One ModelConfiguration asked for chat clients any number of times
SpecChatClient == InitChatClient /\ [][ChatClientNext]_vars

(***************************************************************************)
(* Properties of the registry (SpecRegistry)                               *)
(***************************************************************************)
ObjsOf(c) == {i \in DOMAIN objs : objs[i].obj.cls = c}
Constructed(c) == Cardinality(ObjsOf(c))
Initialized(c) == Cardinality({i \in ObjsOf(c) : objs[i].state # "new"})
InitFailed(c) == Cardinality({i \in ObjsOf(c) : objs[i].state = "failed"})
Returned(t) == result[t] # Unset /\ "id" \in DOMAIN result[t].out
Raised(t) == result[t] # Unset /\ IsExc(result[t].out)

\* C1: with no failing initialize() and no clear_instances call, however the
\* threads calling get_instance for one class interleave, the class is
\* constructed at most once and initialize() is invoked at most once, and
\* exactly once as soon as any call has reached its return statement.
C1_ConstructedAndInitializedOnce ==
    \A c \in Classes :
        (hist.clears = 0 /\ InitFailed(c) = 0) =>
            /\ Constructed(c) <= 1
            /\ Initialized(c) <= 1
            /\ \A t \in Threads :
                (frame[t].cls = c /\ pc[t] = "return") =>
                    Constructed(c) = 1 /\ Initialized(c) = 1
            /\ (hist.returned[c] # {} => Constructed(c) = 1 /\ Initialized(c) = 1)

\* C1 witness: two threads both found the slot empty at their first check and
\* both took the lock; one call has returned the instance and the other is
\* about to return it without having constructed anything.
C1_Witness ==
    \E t1 \in Threads, t2 \in Threads :
        /\ t1 # t2
        /\ hist.clears = 0 /\ InitFailed("LocalConfiguration") = 0
        /\ Returned(t1) /\ result[t1].op = "create_local_configuration"
        /\ frame[t2].cls = "LocalConfiguration" /\ pc[t2] = "return"
        /\ frame[t2].locked /\ frame[t2].attempts = 0
        /\ ~frame[t2].sawFull
        /\ Initialized("LocalConfiguration") = 1

\* C2: when initialize() raises inside get_instance, the failed object is
\* never stored in the slot, the call makes no second attempt, the lock is
\* released as the exception leaves the with block, the exception is handed
\* to the caller of get_instance unchanged, and a later call that finds the
\* slot empty constructs an object of its own and initializes that one.
C2_FailureState ==
    /\ \A i \in DOMAIN objs : \A c \in Classes :
            objs[i].state = "failed" => instances[c] # i
    /\ \A t \in Threads :
        /\ frame[t].attempts <= 1
        /\ (pc[t] = "initialize" =>
                /\ frame[t].instance = Len(objs)
                /\ objs[frame[t].instance].state = "new"
                /\ frame[t].attempts = 0)
        /\ (pc[t] = "unwind" =>
                /\ lock = t
                /\ frame[t].exc # None
                /\ objs[frame[t].instance].state = "failed")
        /\ (pc[t] = "idle" => lock # t)

C2_FailureStep ==
    \A t \in Threads :
        /\ (pc[t] = "unwind" /\ pc'[t] # "unwind") =>
            /\ lock' = 0
            /\ instances' = instances
            /\ objs' = objs
            /\ IF frame[t].inTry
               THEN pc'[t] = "check1" /\ frame'[t].cls = "LocalConfiguration"
               ELSE pc'[t] = "idle" /\ result'[t].out = frame[t].exc
        /\ (pc[t] = "check2" /\ pc'[t] # "check2" /\ instances[frame[t].cls] = 0) =>
            pc'[t] = "construct"
        /\ (pc[t] = "construct" /\ pc'[t] # "construct") =>
            /\ Len(objs') = Len(objs) + 1
            /\ frame'[t].instance = Len(objs')
            /\ pc'[t] = "initialize"

\* C2, as one formula: the state part in every reachable state and the step
\* part on every step (a failed initialize() is not cached: no entry, lock
\* released, exception handed to the caller, a fresh object on the next call).
C2_FailedInitializeNotCached == []C2_FailureState /\ [][C2_FailureStep]_vars

\* C2 witness: a create_local_configuration call ended with initialize()'s
\* exception, and with no clear_instances in between a later call has
\* constructed, initialized and published another object.
C2_Witness ==
    \E t \in Threads :
        /\ Raised(t) /\ result[t].op = "create_local_configuration"
        /\ result[t].out \in {Exc("FileNotFoundError"), Exc("RuntimeError")}
        /\ hist.clears = 0
        /\ lock = 0
        /\ instances["LocalConfiguration"] # 0
        /\ objs[instances["LocalConfiguration"]].state = "ok"
        /\ InitFailed("LocalConfiguration") >= 1

\* C3: an object stored in the slot, and so any object a call returns, has
\* completed initialize() (all three models are set), and while
\* clear_instances has not been called all calls for one class that return,
\* return the same object.
C3_PublishedInitializedAndUnique ==
    \A c \in Classes :
        /\ instances[c] # 0 =>
            /\ instances[c] \in ObjsOf(c)
            /\ objs[instances[c]].state = "ok"
            /\ \A g \in Getters : ~IsExc(CallGetter(g, objs[instances[c]].obj))
        /\ \A i \in hist.returned[c] : i \in ObjsOf(c) /\ objs[i].state = "ok"
        /\ (hist.clears = 0 => Cardinality(hist.returned[c]) <= 1)
        /\ (hist.clears = 0 => \A i \in hist.returned[c] : i = instances[c])

\* C3 witness: two threads' calls have both returned, and both hold the same
\* initialized object.
C3_Witness ==
    \E t1 \in Threads, t2 \in Threads :
        /\ t1 # t2
        /\ hist.clears = 0
        /\ Returned(t1) /\ Returned(t2)
        /\ result[t1].out = result[t2].out
        /\ objs[result[t1].out.id].state = "ok"

\* C5: create_configuration constructs an OnlineConfiguration only when both
\* CONFIG_ENDPOINT and CONFIG_API_KEY are set; every OnlineConfiguration ever
\* constructed fails to initialize and none is stored; the call ends by
\* returning a LocalConfiguration or with an exception of the local path,
\* never with NotImplementedError.
C5_OnlineOnlyWhenBothSetThenLocal ==
    /\ instances["OnlineConfiguration"] = 0
    /\ \A i \in ObjsOf("OnlineConfiguration") : objs[i].state # "ok"
    /\ hist.returned["OnlineConfiguration"] = {}
    /\ \A t \in Threads :
        /\ frame[t].op = "create_configuration" =>
            /\ (frame[t].inTry \/ frame[t].online \/ frame[t].cls = "OnlineConfiguration")
                    => frame[t].envSet
            /\ (~frame[t].inTry => frame[t].cls = "LocalConfiguration")
            /\ (frame[t].cls = "OnlineConfiguration" => pc[t] # "return")
        /\ (result[t] # Unset /\ result[t].op = "create_configuration") =>
            /\ (result[t].online => result[t].envSet)
            /\ (Returned(t) => result[t].out.id \in ObjsOf("LocalConfiguration"))
            /\ (Raised(t) => result[t].out # Exc("NotImplementedError"))
            /\ ((Raised(t) /\ hist.clears = 0) =>
                    result[t].out \in {Exc("FileNotFoundError"), Exc("RuntimeError")})

\* C5 witness: a create_configuration call tried the online configuration,
\* which failed, and returned the local configuration.
C5_Witness ==
    \E t \in Threads :
        /\ Returned(t) /\ result[t].op = "create_configuration"
        /\ result[t].online /\ result[t].envSet
        /\ InitFailed("OnlineConfiguration") >= 1
        /\ objs[result[t].out.id].obj.cls = "LocalConfiguration"

(***************************************************************************)
(* Properties of one LocalConfiguration (SpecLocal)                        *)
(***************************************************************************)
ModelsSet(obj) == {g \in Getters : ~IsExc(CallGetter(g, obj))}

\* C4: after initialize() has returned or raised, either all three model
\* fields are set or none of them is.
C4_InitializeAtomic ==
    cfgLastInit # Unset => (ModelsSet(cfg) = Getters \/ ModelsSet(cfg) = {})

\* C6: on a Configuration on which initialize() has never returned normally,
\* every getter raises, and none returns None.
C6_GettersRaiseBeforeInitialized ==
    (~cfgEverOk /\ cfgLastGet # Unset) => IsExc(cfgLastGet.out)

(***************************************************************************)
(* Properties of the AgentClient (SpecAgent)                               *)
(***************************************************************************)
\* C7: a run_agent call on an AgentClient that has no agent handle yet builds
\* the handle itself, and a run_agent call that finds a handle keeps it.
C7_RunBuildsHandleOnce ==
    \A k \in DOMAIN agentLog.runs :
        LET run == agentLog.runs[k]
        IN  /\ (run.before = Unset =>
                    /\ run.out # Exc("AttributeError")
                    /\ run.after # Unset)
            /\ (run.before # Unset => run.after = run.before)

\* C8: with use_content_safety enabled, a run whose content fails the check
\* returns ContentRejected and never the model's text; a run whose content
\* passes returns the model's text unchanged.
C8_UnsafeContentRejected ==
    \A k \in DOMAIN agentLog.runs :
        LET run == agentLog.runs[k]
        IN  (agent.use_content_safety /\ run.before # Unset /\ ~IsExc(run.response)) =>
                IF run.user_input \in UnsafeContent /\ run.response.text \in UnsafeContent
                THEN run.out = Exc("ContentRejected")
                ELSE (run.user_input \notin UnsafeContent /\ run.response.text \notin UnsafeContent)
                        => run.out = Str(run.response.text)

(***************************************************************************)
(* Properties of the instruction (SpecInstruction)                         *)
(***************************************************************************)
IsFewShot == instr.cls = "AgentFewShotInstruction"

\* C9 as stated: with an empty example list, str() returns exactly the system
\* text.
C9_EmptyExamplesRenderSystemTextOnly ==
    (IsFewShot /\ instr.examples = <<>>) =>
        \A k \in DOMAIN renders : renders[k] = instr.system_instruction

\* C9 as amended: with an empty example list, str() returns the system text
\* followed by the header "\n\nExamples:\n" and nothing after it.
C9_EmptyExamplesRenderHeader ==
    (IsFewShot /\ instr.examples = <<>>) =>
        \A k \in DOMAIN renders :
            renders[k] = instr.system_instruction \o "\n\nExamples:\n"

\* C9 witness: an instruction with no examples has been rendered.
C9_Witness ==
    IsFewShot /\ instr.examples = <<>> /\ Len(renders) >= 1

\* Where the k-th example's block starts in the rendered string
RECURSIVE BlockStart(_, _)
BlockStart(ins, k) ==
    IF k = 1 THEN Len(ins.system_instruction) + Len("\n\nExamples:\n") + 1
    ELSE BlockStart(ins, k - 1)
            + Len("Input: ") + Len(ins.examples[k - 1][1])
            + Len("\nOutput: ") + Len(ins.examples[k - 1][2])
            + Len("\n\n")

\* C10: every str() call on the instruction returns the same string; the
\* string is the system text, the header, and then, for k = 1, 2, ..., a block
\* "Input: <k-th input>\nOutput: <k-th output>" built from the k-th example
\* of the list, consecutive blocks separated by one blank line, with nothing
\* after the last block; and the calls leave the instruction's fields as the
\* constructor set them.
C10_RenderDeterministicInOrder ==
    IsFewShot =>
        /\ instr = instrCtor
        /\ \A k \in DOMAIN renders :
            LET out == renders[k]
                n == Len(instr.examples)
                head == instr.system_instruction \o "\n\nExamples:\n"
            IN  /\ out = renders[1]
                /\ SubSeq(out, 1, Len(head)) = head
                /\ \A j \in 1..n :
                    LET b == "Input: " \o instr.examples[j][1]
                                \o "\nOutput: " \o instr.examples[j][2]
                        from == BlockStart(instr, j)
                    IN  /\ SubSeq(out, from, from + Len(b) - 1) = b
                        /\ IF j < n
                           THEN SubSeq(out, from + Len(b), from + Len(b) + 1) = "\n\n"
                           ELSE Len(out) = from + Len(b) - 1
                /\ (n = 0 => Len(out) = Len(head))

\* C10 witness: an instruction with two different examples has been rendered
\* twice.
C10_Witness ==
    /\ IsFewShot
    /\ Len(instr.examples) >= 2
    /\ instr.examples[1] # instr.examples[2]
    /\ Len(renders) >= 2


(***************************************************************************)
(* Properties of POST /run-agent (SpecApi)                                 *)
(***************************************************************************)
\* C11: every request to POST /run-agent whose user_input is empty or missing
\* is answered {"error": "user_input is required."}, and answering it builds
\* no agent wrapper and no chat client and makes no upstream call
C11_EmptyOrMissingAnsweredWithError ==
    \A i \in DOMAIN apiLog.requests :
        LET q == apiLog.requests[i]
        IN  q.user_input \in {Unset, Str("")} =>
                /\ q.handled.out = [error |-> "user_input is required."]
                /\ q.handled.wrappers = 0
                /\ q.handled.chat_agents = 0
                /\ q.handled.upstream = 0

(***************************************************************************)
(* Properties of GraphTool.get_resource (SpecGraph)                        *)
(***************************************************************************)
\* s has sub as a substring
Contains(s, sub) ==
    \/ Len(sub) = 0
    \/ \E i \in 1..(Len(s) - Len(sub) + 1) : SubSeq(s, i, i + Len(sub) - 1) = sub

\* C12: no get_resource call raises on an upstream failure: a response whose
\* status is not 200 gives a string holding the status code and the response
\* body, and a response with status 200 gives the response body unchanged
C12_GetResourceNeverRaises ==
    \A i \in DOMAIN graphCalls :
        LET c == graphCalls[i]
        IN  /\ ~IsExc(c.out)
            /\ ~IsExc(c.upstream) =>
                IF c.upstream.status_code # 200
                THEN /\ Contains(c.out.str, IntStr(c.upstream.status_code))
                     /\ Contains(c.out.str, c.upstream.text)
                ELSE c.out = Str(c.upstream.text)

\* The part of C12 about responses: whenever requests.get answered
C12_ResponsesBecomeStrings ==
    \A i \in DOMAIN graphCalls :
        LET c == graphCalls[i]
        IN  ~IsExc(c.upstream) =>
                /\ ~IsExc(c.out)
                /\ IF c.upstream.status_code # 200
                   THEN /\ Contains(c.out.str, IntStr(c.upstream.status_code))
                        /\ Contains(c.out.str, c.upstream.text)
                   ELSE c.out = Str(c.upstream.text)

(***************************************************************************)
(* Properties of ModelConfiguration.to_azure_oai_chat_client               *)
(* (SpecChatClient)                                                        *)
(***************************************************************************)
\* C13: to_azure_oai_chat_client builds a chat client (for the
\* configuration's endpoint and deployment and the given credential) only
\* when the configuration's type is CHAT; for an EMBEDDING configuration it
\* raises ValueError and constructs no client
C13_ChatClientOnlyForChat ==
    \A i \in DOMAIN chatClients :
        LET c == chatClients[i]
        IN  IF modelCfg.type = "CHAT"
            THEN /\ c.built = 1
                 /\ c.out = [endpoint        |-> modelCfg.endpoint,
                             deployment_name |-> modelCfg.deployment_name,
                             credential      |-> c.credential]
            ELSE /\ c.built = 0
                 /\ c.out = Exc("ValueError")

\* An EMBEDDING configuration was asked for a chat client
C13_Witness ==
    /\ modelCfg # Unset
    /\ modelCfg.type = "EMBEDDING"
    /\ Len(chatClients) >= 1
    /\ chatClients[1].out = Exc("ValueError")
    /\ chatClients[1].built = 0

(***************************************************************************)
(* Properties of get_instance's two checks (SpecRegistry)                  *)
(***************************************************************************)
\* A thread is inside get_instance
InGetInstance(t) == frame[t].cls # ""
\* The places of get_instance's with block
UnderLock == {"check2", "construct", "initialize", "store", "release"}

\* C14: a get_instance call whose first check found the slot of its class
\* populated goes to its return without ever acquiring the lock; the lock is
\* held only by calls whose first check found the slot empty; and such a call
\* constructs only after its second check, made under the lock, found the
\* slot still empty
C14_FastPathTakesNoLock ==
    \A t \in Threads : InGetInstance(t) =>
        /\ frame[t].sawFull => (pc[t] = "return" /\ ~frame[t].locked /\ lock # t)
        /\ (lock = t \/ frame[t].locked) => ~frame[t].sawFull
        /\ pc[t] \in UnderLock => (lock = t /\ frame[t].locked)
        /\ pc[t] \in {"construct", "initialize", "store"} =>
                NotInInstances(frame[t].cls)

\* One thread is about to return from the fast path while another one holds
\* the lock
C14_Witness ==
    \E t, u \in Threads :
        /\ t # u
        /\ pc[t] = "return" /\ frame[t].sawFull /\ ~frame[t].locked
        /\ lock = u
        /\ \E v \in Threads : pc[v] \in {"construct", "initialize", "store", "release"}

\* C15: no get_instance call that got as far as its return statement (its
\* construction and initialize() succeeded, or it saw the slot populated)
\* fails there: the unlocked read of the slot never raises KeyError, however
\* clear_instances calls interleave
C15_ReturnNeverFails ==
    \A t \in Threads : Raised(t) => result[t].out # Exc("KeyError")

\* C16: while no clear_instances call empties the registry, a published slot
\* keeps its instance: no step replaces it, constructs or initializes an
\* object of that class, and every get_instance call for the class that
\* returns, returns that instance, whatever its arguments are
C16_PublishedInstanceKept ==
    [][\A c \in Classes :
        (~NotInInstances(c) /\ hist'.clears = hist.clears) =>
            /\ instances'[c] = instances[c]
            /\ \A i \in DOMAIN objs' :
                    objs'[i].obj.cls = c => (i \in DOMAIN objs /\ objs'[i] = objs[i])
            /\ \A t \in Threads :
                    (pc[t] = "return" /\ frame[t].cls = c /\ pc'[t] = "idle") =>
                        result'[t].out = [id |-> instances[c]]]_vars

\* The LocalConfiguration made for "alt.json" was also returned to a
\* create_configuration call, which asks for the default path, and nothing
\* else was constructed
C16_Witness ==
    /\ hist.clears = 0
    /\ Len(objs) = 1
    /\ objs[1].obj.cls = "LocalConfiguration"
    /\ objs[1].obj.config_path = Str("alt.json")
    /\ instances["LocalConfiguration"] = 1
    /\ \E t, u \in Threads :
        /\ Returned(t) /\ result[t].op = "create_local_configuration"
        /\ Returned(u) /\ result[u].op = "create_configuration"
        /\ result[t].out = [id |-> 1]
        /\ result[u].out = [id |-> 1]

==============================================================================
